---- MODULE Spec2Model ----
(***************************************************************************)
(* Build.Run of build.go: the initial compile pass, the run/restart        *)
(* goroutine and the launched-process goroutines, and the watch poll loop  *)
(* with its per-step status (TreeHash, Dirty, Broken); the tree hasher     *)
(* directoryHash; the legacy watcher watchSourceTree.                      *)
(***************************************************************************)
EXTENDS Integers, Sequences, FiniteSets, TLC

\* len(b.Steps): the number of build steps of the pipeline
NumSteps == 3

Steps == 0..(NumSteps - 1)
LastStep == NumSteps - 1
NoStep == 0 - 1

VARIABLES
    watch,          \* flag --watch
    run,            \* flag --run
    quick,          \* conf.Quick
    ctxDone,        \* ctx.Err() != nil : the top-level context is cancelled
    differs,        \* per step: sourceTreeHash of its tree, as it is on disk now,
                    \* is not the digest held in status[i].TreeHash
    pc,             \* position of the goroutine executing Run
    idx,            \* loop index i of the loop Run is in
    status,         \* status []sourceTreeStatus: the flags Dirty and Broken (TreeHash: see differs)
    shouldRestart,  \* local of the poll loop
    restartOpen,    \* the restart channel is not closed
    runErrOpen,     \* the runErr channel is not closed
    finalErr,       \* what Run's final read of runErr received, and from which instance
    halted,         \* "no", or how the whole process ended: "fatal" (log.Fatal), "panic"
    fatalErr,       \* the error log.Fatal reported
    lpc,            \* position of the run/restart goroutine
    procs,          \* the goroutines r(cctx), oldest first; the last one is the one cancel refers to
    \* -- observations of the run, read by the properties only
    initFail,       \* the step whose callback failed in the initial pass, or NoStep
    initInvoked,    \* steps whose callback was invoked in the initial pass
    enteredWatch,   \* Run reached the poll loop
    tick,           \* what happened in the current poll tick
    last,           \* per step: how its most recent compile attempt ended (kept under TrackSpec only)
    \* -- the tree hasher, on its own
    tree,           \* the watched directory tree on disk
    watchList,      \* the WatchList: FileFilter, and whether it is nil
    TreeHash,       \* status[i].TreeHash: the digest of the last poll
    mutation,       \* what happened to the tree since the last poll
    seen,           \* what the last poll made of it
    \* -- the legacy watcher, on its own
    wpc,            \* position of the loop of watchSourceTree
    jobs,           \* the goroutines started for childJob, oldest first
    mu,             \* the mutex mu is locked
    stale           \* the digest of the tree on disk is not lastHash

vars == <<watch, run, quick, ctxDone, differs, pc, idx, status, shouldRestart,
          restartOpen, runErrOpen, finalErr, halted, fatalErr, lpc, procs,
          initFail, initInvoked, enteredWatch, tick, last,
          tree, watchList, TreeHash, mutation, seen, wpc, jobs, mu, stale>>

runVars == <<watch, run, quick, ctxDone, differs, pc, idx, status, shouldRestart,
             restartOpen, runErrOpen, finalErr, halted, fatalErr, lpc, procs,
             initFail, initInvoked, enteredWatch, tick, last>>
hashVars == <<tree, watchList, TreeHash, mutation, seen>>
legacyVars == <<wpc, jobs, mu, stale>>

progVars == <<pc, idx, status, shouldRestart>>
chanVars == <<restartOpen, runErrOpen>>
obsVars == <<initFail, initInvoked, enteredWatch, tick, last>>
flagVars == <<watch, run, quick>>

Dirty(i) == status[i].Dirty
Broken(i) == status[i].Broken

NoErr == [kind |-> "nil", step |-> NoStep]
CompileErr(i) == [kind |-> "compile", step |-> i]
ExitErr == [kind |-> "exit", step |-> NoStep]
\* nothing received yet by the final read
NoFinal == [recv |-> FALSE, err |-> NoErr, byRestart |-> FALSE]

\* the record of a tick that starts with status st: nothing detected, nothing
\* invoked yet; dirty0 and broken0 are the flags as the tick found them, dirty1
\* the steps that are Dirty when its change detection is over
NoTick(st) ==
    [changed |-> {}, invoked |-> {}, ok |-> {}, failed |-> {},
     signaled |-> FALSE,
     clean0 |-> \A i \in Steps : ~st[i].Dirty,
     dirty1 |-> {},
     dirty0 |-> {i \in Steps : st[i].Dirty},
     broken0 |-> {i \in Steps : st[i].Broken}]

\* change detection is over with status st
Detected(t, st) == [t EXCEPT !.dirty1 = {i \in Steps : st[i].Dirty}]

\* the flags found by the tick are kept until the first step after change detection
EndDetect(t) == [t EXCEPT !.dirty0 = {}, !.broken0 = {}]

\* outside the poll loop there is no tick
Idle ==
    [changed |-> {}, invoked |-> {}, ok |-> {}, failed |-> {},
     signaled |-> FALSE, clean0 |-> TRUE, dirty1 |-> {}, dirty0 |-> {},
     broken0 |-> {}]

alive == halted = "no"

\* the most recent attempts are not being recorded
Untracked == [i \in Steps |-> "untracked"]
\* no step was attempted yet
NoAttempt == [i \in Steps |-> "none"]
\* the callback of step i returned: its most recent attempt is now this one
Attempt(l, i, ok) ==
    IF l = Untracked THEN l ELSE [l EXCEPT ![i] = IF ok THEN "ok" ELSE "fail"]

\* the state as Run begins, after flag.Parse and line 71
\* the tree hasher before anything happened to an empty tree
EmptyTree == <<>>
NoChange == [op |-> "none", class |-> "none"]
NothingSeen == [op |-> "none", class |-> "none", changed |-> FALSE]
HasherAtRest ==
    /\ tree = EmptyTree
    /\ watchList = [nil |-> TRUE, FileFilter |-> <<>>]
    /\ TreeHash = [hex |-> <<>>]
    /\ mutation = NoChange
    /\ seen = NothingSeen

\* watchSourceTree not called
WatcherAtRest ==
    wpc = "none" /\ jobs = <<>> /\ mu = FALSE /\ stale = FALSE

Start ==
    /\ HasherAtRest /\ WatcherAtRest
    /\ watch \in BOOLEAN
    /\ run \in BOOLEAN
    /\ quick \in BOOLEAN
    /\ ctxDone = FALSE
    /\ differs = [i \in Steps |-> TRUE]
    /\ pc = "initial"
    /\ idx = 0
    /\ status = [i \in Steps |-> [Dirty |-> FALSE, Broken |-> FALSE]]
    /\ shouldRestart = FALSE
    /\ restartOpen = TRUE
    /\ runErrOpen = TRUE
    /\ finalErr = NoFinal
    /\ halted = "no"
    /\ fatalErr = NoErr
    /\ lpc = "none"
    /\ procs = <<>>
    /\ initFail = NoStep
    /\ initInvoked = {}
    /\ enteredWatch = FALSE
    /\ tick = Idle

Init == Start /\ last = Untracked

\* Run not called
RunAtRest ==
    /\ watch = FALSE /\ run = FALSE /\ quick = FALSE
    /\ ctxDone = FALSE
    /\ differs = [i \in Steps |-> FALSE]
    /\ pc = "done" /\ idx = 0
    /\ status = [i \in Steps |-> [Dirty |-> FALSE, Broken |-> FALSE]]
    /\ shouldRestart = FALSE
    /\ restartOpen = TRUE /\ runErrOpen = TRUE
    /\ finalErr = NoFinal
    /\ halted = "no" /\ fatalErr = NoErr
    /\ lpc = "none" /\ procs = <<>>
    /\ initFail = NoStep /\ initInvoked = {} /\ enteredWatch = FALSE
    /\ tick = Idle
    /\ last = Untracked

\* the same, with the most recent attempt of every step recorded
TrackInit == Start /\ last = NoAttempt

(***************************************************************************)
(* Pure parts of Run                                                       *)
(***************************************************************************)

\* line 120: status[i].TreeHash != th, for th the digest sourceTreeHash returns now
HashChanged(i) == differs[i]

\* lines 76-85: an error of the initial pass is fatal unless --watch was given
FailsFatallyNever(w) == FALSE
FailsFatally(w) == ~w

\* lines 79-81, wrongly: only the failed step gets Broken
MarkOnlyFailed(st, i) ==
    [j \in Steps |-> IF j = i THEN [st[j] EXCEPT !.Broken = TRUE] ELSE st[j]]

\* lines 79-81: step i and every later step get Broken
MarkBroken(st, i) ==
    [j \in Steps |-> IF j >= i THEN [st[j] EXCEPT !.Broken = TRUE] ELSE st[j]]

\* lines 121-134, wrongly: later steps are marked only when Broken, as if always quick
CascadeOnlyBroken(st, i, q) ==
    [j \in Steps |->
        IF j = i THEN [Dirty |-> TRUE, Broken |-> FALSE]
        ELSE IF j > i /\ st[j].Broken THEN [Dirty |-> TRUE, Broken |-> FALSE]
        ELSE st[j]]

\* lines 121-134, wrongly: conf.Quick is not looked at
CascadeIgnoresQuick(st, i, q) ==
    [j \in Steps |->
        IF j = i THEN [Dirty |-> TRUE, Broken |-> FALSE]
        ELSE IF j > i THEN [Dirty |-> TRUE, Broken |-> FALSE]
        ELSE st[j]]

\* lines 121-134, wrongly: a later Broken step is marked Dirty and stays Broken
CascadeKeepsBroken(st, i, q) ==
    [j \in Steps |->
        IF j = i THEN [Dirty |-> TRUE, Broken |-> FALSE]
        ELSE IF j > i THEN
            IF st[j].Broken \/ ~q THEN [st[j] EXCEPT !.Dirty = TRUE] ELSE st[j]
        ELSE st[j]]

\* lines 121-134: the flags after the tree of step i was seen to have changed
Cascade(st, i, q) ==
    [j \in Steps |->
        IF j = i THEN [Dirty |-> TRUE, Broken |-> FALSE]
        ELSE IF j > i THEN
            IF st[j].Broken THEN [st[j] EXCEPT !.Dirty = TRUE, !.Broken = FALSE]
            ELSE IF ~q THEN [st[j] EXCEPT !.Dirty = TRUE]
            ELSE st[j]
        ELSE st[j]]

\* lines 119-136, wrongly: the comparison of line 120 is left out
DetectAlways(st, i, changed, q) == Cascade(st, i, q)

\* lines 119-136: the flags after one iteration of the change-detection loop
Detect(st, i, changed, q) ==
    IF changed THEN Cascade(st, i, q) ELSE st

\* lines 145-147: the last step being recompiled asks for a restart
WantsRestart(i, sr) == IF i = LastStep THEN TRUE ELSE sr

\* lines 153-155: what a poll tick records when the callback of step i returned nil
AfterSuccess(st, i) == [st EXCEPT ![i].Broken = TRUE]

\* lines 150-152, wrongly: the steps after the failed one are no longer Dirty
AfterFailureClearsLater(st, i) ==
    [j \in Steps |-> IF j > i THEN [st[j] EXCEPT !.Dirty = FALSE] ELSE st[j]]

\* lines 150-152: what a poll tick records when the callback of step i returned an error
AfterFailure(st, i) == st

(***************************************************************************)
(* The goroutine executing Run                                             *)
(***************************************************************************)

\* lines 74-87: one iteration of the initial pass; ok is what bs.Compile returned
InitialCompile(ok) ==
    /\ alive /\ pc = "initial"
    /\ initInvoked' = initInvoked \cup {idx}
    /\ last' = Attempt(last, idx, ok)
    /\ IF ok
       THEN /\ idx' = idx + 1
            /\ pc' = IF idx + 1 = NumSteps THEN "spawn" ELSE "initial"
            /\ UNCHANGED <<status, halted, fatalErr, initFail>>
       ELSE IF ~FailsFatally(watch)
       THEN /\ status' = MarkBroken(status, idx)
            /\ pc' = "spawn"
            /\ initFail' = idx
            /\ UNCHANGED <<idx, halted, fatalErr>>
       ELSE /\ pc' = "fatal"
            /\ halted' = "fatal"
            /\ fatalErr' = CompileErr(idx)
            /\ initFail' = idx
            /\ UNCHANGED <<idx, status>>
    /\ UNCHANGED <<hashVars, legacyVars, flagVars, ctxDone, differs, shouldRestart, chanVars, finalErr,
                   lpc, procs, enteredWatch, tick>>

\* lines 89-108: the channels are made and, with --run, the run/restart goroutine is started
Spawn ==
    /\ alive /\ pc = "spawn"
    /\ lpc' = IF run THEN "start" ELSE "none"
    /\ pc' = IF watch THEN "hashinit" ELSE "final"
    /\ UNCHANGED <<hashVars, legacyVars, flagVars, ctxDone, differs, idx, status, shouldRestart, chanVars,
                   finalErr, halted, fatalErr, procs, obsVars>>

\* lines 110-113: every step's TreeHash is taken
HashInit ==
    /\ alive /\ pc = "hashinit"
    /\ differs' = [i \in Steps |-> FALSE]
    /\ pc' = "loopcheck"
    /\ enteredWatch' = TRUE
    /\ UNCHANGED <<hashVars, legacyVars, flagVars, ctxDone, idx, status, shouldRestart, chanVars, finalErr,
                   halted, fatalErr, lpc, procs, initFail, initInvoked, tick, last>>

\* line 115: the loop condition ctx.Err() == nil
LoopCheck ==
    /\ alive /\ pc = "loopcheck"
    /\ pc' = IF ctxDone THEN "final" ELSE "sleep"
    /\ tick' = IF ctxDone THEN Idle ELSE tick
    /\ UNCHANGED <<hashVars, legacyVars, flagVars, ctxDone, differs, idx, status, shouldRestart, chanVars,
                   finalErr, halted, fatalErr, lpc, procs, initFail, initInvoked,
                   enteredWatch, last>>

\* line 116: the sleep that starts a poll tick
Sleep ==
    /\ alive /\ pc = "sleep"
    /\ pc' = "detect"
    /\ idx' = 0
    /\ tick' = NoTick(status)
    /\ UNCHANGED <<hashVars, legacyVars, flagVars, ctxDone, differs, status, shouldRestart, chanVars, finalErr,
                   halted, fatalErr, lpc, procs, initFail, initInvoked, enteredWatch, last>>

\* lines 118-139: one iteration of the change-detection loop (and, leaving it, line 139)
DetectStep ==
    /\ alive /\ pc = "detect"
    /\ status' = Detect(status, idx, HashChanged(idx), quick)
    /\ differs' = [differs EXCEPT ![idx] = FALSE]
    /\ LET t == IF HashChanged(idx)
                THEN [tick EXCEPT !.changed = @ \cup {idx}]
                ELSE tick
       IN  tick' = IF idx + 1 = NumSteps THEN Detected(t, status') ELSE t
    /\ IF idx + 1 = NumSteps
       THEN pc' = "recompile" /\ idx' = 0 /\ shouldRestart' = FALSE
       ELSE pc' = "detect" /\ idx' = idx + 1 /\ UNCHANGED shouldRestart
    /\ UNCHANGED <<hashVars, legacyVars, flagVars, ctxDone, chanVars, finalErr, halted, fatalErr,
                   lpc, procs, initFail, initInvoked, enteredWatch, last>>

\* lines 140-143: a step that is not Dirty is passed over
RecompileSkip ==
    /\ alive /\ pc = "recompile" /\ ~Dirty(idx)
    /\ IF idx + 1 = NumSteps
       THEN pc' = "restartcheck" /\ idx' = 0
       ELSE pc' = "recompile" /\ idx' = idx + 1
    /\ tick' = IF idx + 1 = NumSteps THEN EndDetect(tick) ELSE tick
    /\ UNCHANGED <<hashVars, legacyVars, flagVars, ctxDone, differs, status, shouldRestart, chanVars, finalErr,
                   halted, fatalErr, lpc, procs, initFail, initInvoked, enteredWatch, last>>

\* line 148, wrongly: the callback is called with the step still Dirty
ClearDirtyNever(st, i) == st

\* line 148: status[i].Dirty = false, before the callback of line 149 is called
ClearDirty(st, i) == [st EXCEPT ![i].Dirty = FALSE]

\* lines 144-149: a Dirty step: shouldRestart, Dirty cleared, the callback is called
RecompileBegin ==
    /\ alive /\ pc = "recompile" /\ Dirty(idx)
    /\ shouldRestart' = WantsRestart(idx, shouldRestart)
    /\ status' = ClearDirty(status, idx)
    /\ tick' = [EndDetect(tick) EXCEPT !.invoked = @ \cup {idx}]
    /\ pc' = "callback"
    /\ UNCHANGED <<hashVars, legacyVars, flagVars, ctxDone, differs, idx, chanVars, finalErr, halted, fatalErr,
                   lpc, procs, initFail, initInvoked, enteredWatch, last>>

\* lines 149-155: the callback returns; ok is whether err == nil
CallbackReturn(ok) ==
    /\ alive /\ pc = "callback"
    /\ IF ok
       THEN /\ status' = AfterSuccess(status, idx)
            /\ tick' = [tick EXCEPT !.ok = @ \cup {idx}]
            /\ IF idx + 1 = NumSteps
               THEN pc' = "restartcheck" /\ idx' = 0
               ELSE pc' = "recompile" /\ idx' = idx + 1
       ELSE /\ status' = AfterFailure(status, idx)
            /\ tick' = [tick EXCEPT !.failed = @ \cup {idx}]
            /\ pc' = "restartcheck"
            /\ idx' = 0
    /\ last' = Attempt(last, idx, ok)
    /\ UNCHANGED <<hashVars, legacyVars, flagVars, ctxDone, differs, shouldRestart, chanVars, finalErr, halted,
                   fatalErr, lpc, procs, initFail, initInvoked, enteredWatch>>

\* line 157: if shouldRestart
RestartCheck ==
    /\ alive /\ pc = "restartcheck"
    /\ pc' = IF shouldRestart THEN "send" ELSE "loopcheck"
    /\ tick' = [tick EXCEPT !.signaled = shouldRestart]
    /\ shouldRestart' = FALSE
    /\ UNCHANGED <<hashVars, legacyVars, flagVars, ctxDone, differs, idx, status, chanVars,
                   finalErr, halted, fatalErr, lpc, procs, initFail, initInvoked,
                   enteredWatch, last>>

\* lines 158 and 100: restart <- 0 meets the receive of "for range restart"
RestartHandoff ==
    /\ alive /\ pc = "send" /\ lpc = "range" /\ restartOpen
    /\ pc' = "loopcheck"
    /\ lpc' = "cancel"
    /\ UNCHANGED <<hashVars, legacyVars, flagVars, ctxDone, differs, idx, status, shouldRestart, chanVars,
                   finalErr, halted, fatalErr, procs, obsVars>>

\* line 163 with run false, then the deferred close(restart) as Run returns
\* line 163 with run true: Run goes on to read runErr
Final ==
    /\ alive /\ pc = "final"
    /\ pc' = IF run THEN "finalrecv" ELSE "return"
    /\ UNCHANGED <<hashVars, legacyVars, flagVars, ctxDone, differs, idx, status, shouldRestart, chanVars,
                   finalErr, halted, fatalErr, lpc, procs, obsVars>>

\* lines 164 and 97: err := <-runErr meets the send of the instance at position k
FinalRecv(k) ==
    /\ alive /\ pc = "finalrecv" /\ runErrOpen
    /\ procs[k].st = "exited"
    /\ finalErr' = [recv |-> TRUE, err |-> procs[k].err, byRestart |-> procs[k].byRestart]
    /\ procs' = [procs EXCEPT ![k].st = "done"]
    /\ pc' = "closeRunErr"
    /\ UNCHANGED <<hashVars, legacyVars, flagVars, ctxDone, differs, idx, status, shouldRestart, chanVars,
                   halted, fatalErr, lpc, obsVars>>

\* lines 166-168, wrongly: the outcome is dropped
FatalOnNever(err) == FALSE
\* lines 166-168: log.Fatal(err) if err != nil
FatalOn(err) == err # NoErr

\* lines 165-168: close(runErr), then log.Fatal(err) if err != nil
CloseRunErr ==
    /\ alive /\ pc = "closeRunErr"
    /\ runErrOpen' = FALSE
    /\ IF FatalOn(finalErr.err)
       THEN pc' = "fatal" /\ halted' = "fatal" /\ fatalErr' = finalErr.err
       ELSE pc' = "return" /\ UNCHANGED <<halted, fatalErr>>
    /\ UNCHANGED <<hashVars, legacyVars, flagVars, ctxDone, differs, idx, status, shouldRestart, restartOpen,
                   finalErr, lpc, procs, obsVars>>

\* lines 170 and 91: Run returns and the deferred close(restart) runs
Return ==
    /\ alive /\ pc = "return"
    /\ restartOpen' = FALSE
    /\ pc' = "done"
    /\ UNCHANGED <<hashVars, legacyVars, flagVars, ctxDone, differs, idx, status, shouldRestart, runErrOpen,
                   finalErr, halted, fatalErr, lpc, procs, obsVars>>

(***************************************************************************)
(* The run/restart goroutine, lines 94-107                                 *)
(***************************************************************************)

\* the context cctx of the instance p is done: its own cancel was called, or ctx is done
cctxDone(p) == p.cancelled \/ ctxDone

\* go r(cctx) with a fresh cctx: a new goroutine r is added; goroutines that have
\* returned are dropped from the list
Launch(ps) ==
    SelectSeq(ps, LAMBDA p : p.st # "done")
        \o <<[st |-> "spawned", cancelled |-> FALSE, byRestart |-> FALSE,
              err |-> NoErr, afterFinal |-> finalErr.recv]>>

\* cancel(): the cancel function of the cctx made last
Cancel(ps, restarting) ==
    [ps EXCEPT ![Len(ps)] = [@ EXCEPT !.cancelled = TRUE,
                                      !.byRestart = @ \/ restarting]]

\* lines 101-103, wrongly: the receive of line 102 is left out
AfterCancelNoWait == "relaunch"
\* lines 101-103: after cancel() the goroutine receives from runErr
AfterCancel == "recv"

\* lines 95-99: the first instance is started
LStart ==
    /\ alive /\ lpc = "start"
    /\ procs' = Launch(procs)
    /\ lpc' = "range"
    /\ UNCHANGED <<hashVars, legacyVars, flagVars, ctxDone, differs, progVars, chanVars, finalErr, halted,
                   fatalErr, obsVars>>

\* line 100 once restart is closed: the range loop ends
LRangeClosed ==
    /\ alive /\ lpc = "range" /\ ~restartOpen
    /\ lpc' = "finalcancel"
    /\ UNCHANGED <<hashVars, legacyVars, flagVars, ctxDone, differs, progVars, chanVars, finalErr, halted,
                   fatalErr, procs, obsVars>>

\* line 101: cancel() after a restart was received
LCancel ==
    /\ alive /\ lpc = "cancel"
    /\ procs' = Cancel(procs, TRUE)
    /\ lpc' = AfterCancel
    /\ UNCHANGED <<hashVars, legacyVars, flagVars, ctxDone, differs, progVars, chanVars, finalErr, halted,
                   fatalErr, obsVars>>

\* lines 102 and 97: <-runErr meets the send of the instance at position k
LRecv(k) ==
    /\ alive /\ lpc = "recv" /\ runErrOpen
    /\ procs[k].st = "exited"
    /\ procs' = [procs EXCEPT ![k].st = "done"]
    /\ lpc' = "relaunch"
    /\ UNCHANGED <<hashVars, legacyVars, flagVars, ctxDone, differs, progVars, chanVars, finalErr, halted,
                   fatalErr, obsVars>>

\* line 102 once runErr is closed: the receive yields the zero value
LRecvClosed ==
    /\ alive /\ lpc = "recv" /\ ~runErrOpen
    /\ lpc' = "relaunch"
    /\ UNCHANGED <<hashVars, legacyVars, flagVars, ctxDone, differs, progVars, chanVars, finalErr, halted,
                   fatalErr, procs, obsVars>>

\* lines 103-104: the next instance is started under a fresh cctx
LRelaunch ==
    /\ alive /\ lpc = "relaunch"
    /\ procs' = Launch(procs)
    /\ lpc' = "range"
    /\ UNCHANGED <<hashVars, legacyVars, flagVars, ctxDone, differs, progVars, chanVars, finalErr, halted,
                   fatalErr, obsVars>>

\* line 106: cancel() after the range loop
LFinalCancel ==
    /\ alive /\ lpc = "finalcancel"
    /\ procs' = Cancel(procs, FALSE)
    /\ lpc' = "done"
    /\ UNCHANGED <<hashVars, legacyVars, flagVars, ctxDone, differs, progVars, chanVars, finalErr, halted,
                   fatalErr, obsVars>>

(***************************************************************************)
(* The goroutines r(cctx), lines 96-98, each running Passthru              *)
(***************************************************************************)

\* lines 201-203, 213: exec.Cmd.Run starts the process, or returns ctx's error
\* without starting it when cctx is already done
ProcStart(k) ==
    /\ alive /\ procs[k].st = "spawned"
    /\ procs' = IF cctxDone(procs[k])
                THEN [procs EXCEPT ![k].st = "exited", ![k].err = ExitErr]
                ELSE [procs EXCEPT ![k].st = "running"]
    /\ UNCHANGED <<hashVars, legacyVars, flagVars, ctxDone, differs, progVars, chanVars, finalErr, halted,
                   fatalErr, lpc, obsVars>>

\* line 213: the process exits by itself, with status 0 or not
ProcExit(k, e) ==
    /\ alive /\ procs[k].st = "running"
    /\ procs' = [procs EXCEPT ![k].st = "exited", ![k].err = e]
    /\ UNCHANGED <<hashVars, legacyVars, flagVars, ctxDone, differs, progVars, chanVars, finalErr, halted,
                   fatalErr, lpc, obsVars>>

\* lines 202, 213: cctx is done, so exec.CommandContext kills the process and Run returns an error
ProcKilled(k) ==
    /\ alive /\ procs[k].st = "running" /\ cctxDone(procs[k])
    /\ procs' = [procs EXCEPT ![k].st = "exited", ![k].err = ExitErr]
    /\ UNCHANGED <<hashVars, legacyVars, flagVars, ctxDone, differs, progVars, chanVars, finalErr, halted,
                   fatalErr, lpc, obsVars>>

\* line 97 once runErr is closed: the send panics and the process dies
ProcSendClosed(k) ==
    /\ alive /\ procs[k].st = "exited" /\ ~runErrOpen
    /\ halted' = "panic"
    /\ UNCHANGED <<hashVars, legacyVars, flagVars, ctxDone, differs, progVars, chanVars, finalErr, fatalErr,
                   lpc, procs, obsVars>>

(***************************************************************************)
(* The environment                                                         *)
(***************************************************************************)

\* the caller of Run cancels ctx
CancelCtx ==
    /\ alive /\ ~ctxDone
    /\ ctxDone' = TRUE
    /\ UNCHANGED <<hashVars, legacyVars, flagVars, differs, progVars, chanVars, finalErr, halted, fatalErr,
                   lpc, procs, obsVars>>

\* a file of step i's watched tree is written: its digest is no longer the one
\* in status[i].TreeHash, or is that one again. Run reads a tree only at lines
\* 112 and 119, so a write is placed in the sleep before the tick that reads it.
TreeChange(i) ==
    /\ alive /\ pc = "sleep"
    /\ differs' = [differs EXCEPT ![i] = ~@]
    /\ UNCHANGED <<hashVars, legacyVars, flagVars, ctxDone, progVars, chanVars, finalErr, halted, fatalErr,
                   lpc, procs, obsVars>>

MainStep ==
    \/ \E ok \in BOOLEAN : InitialCompile(ok)
    \/ Spawn
    \/ HashInit
    \/ LoopCheck
    \/ Sleep
    \/ DetectStep
    \/ RecompileSkip
    \/ RecompileBegin
    \/ \E ok \in BOOLEAN : CallbackReturn(ok)
    \/ RestartCheck
    \/ RestartHandoff
    \/ Final
    \/ \E k \in DOMAIN procs : FinalRecv(k)
    \/ CloseRunErr
    \/ Return

LifecycleStep ==
    \/ LStart
    \/ LRangeClosed
    \/ LCancel
    \/ \E k \in DOMAIN procs : LRecv(k)
    \/ LRecvClosed
    \/ LRelaunch
    \/ LFinalCancel

ProcStep ==
    \/ \E k \in DOMAIN procs : ProcStart(k)
    \/ \E k \in DOMAIN procs : ProcKilled(k)
    \/ \E k \in DOMAIN procs : ProcSendClosed(k)

EnvStep ==
    \/ \E k \in DOMAIN procs, e \in {NoErr, ExitErr} : ProcExit(k, e)
    \/ CancelCtx
    \/ \E i \in Steps : TreeChange(i)

Next == MainStep \/ LifecycleStep \/ ProcStep \/ EnvStep

Spec == Init /\ [][Next]_vars

\* Scheduling: every goroutine that can run does run; a process whose context is
\* done exits. Nothing obliges the environment to act.
FairSpec ==
    Spec /\ WF_vars(MainStep) /\ WF_vars(LifecycleStep) /\ WF_vars(ProcStep)

TrackSpec == TrackInit /\ [][Next]_vars

(***************************************************************************)
(* The tree hasher, lines 249-307                                          *)
(***************************************************************************)

\* deepest level of an entry below the watched root
MaxDepth == 2
\* most entries the watched tree holds at a time
MaxEntries == 3

\* strings are sequences of characters; the names the watched tree is built from
aGo == <<"a", ".", "g", "o">>
bTxt == <<"b", ".", "t", "x", "t">>
dotCGo == <<".", "c", ".", "g", "o">>
lib == <<"l", "i", "b">>
build == <<"b", "u", "i", "l", "d">>
dotGit == <<".", "g", "i", "t">>
dotDot == <<".", ".">>
nodeModules == <<"n", "o", "d", "e", "_", "m", "o", "d", "u", "l", "e", "s">>
doc == <<"d", "o", "c">>
root == <<"w">>
FileNames == {aGo, bTxt, dotCGo}
DirNames == {lib, build, dotGit}
\* the order in which Readdirnames lists the entries of a directory
ListingOrder == <<dotGit, bTxt, lib, dotCGo, build, aGo>>
\* file contents
Contents == {<<>>, <<"x">>}

\* an entry is named by the names on the way from the root to it; a tree maps
\* the entries it holds to what they are
Parent(key) == SubSeq(key, 1, Len(key) - 1)

Absent == [kind |-> "none", data |-> <<>>]
Directory == [kind |-> "dir", data |-> <<>>]
File(c) == [kind |-> "file", data |-> c]
\* the root is a directory; what is at key in the tree t
NodeAt(t, key) ==
    IF key = <<>> THEN Directory
    ELSE IF key \in DOMAIN t THEN t[key]
    ELSE Absent
Entries(t) == DOMAIN t
ChildKeys(t, key) == {k \in Entries(t) : Len(k) = Len(key) + 1 /\ Parent(k) = key}
\* the tree t with node at key, and without key
With(t, key, node) == [k \in DOMAIN t \cup {key} |-> IF k = key THEN node ELSE t[k]]
Without(t, key) == [k \in DOMAIN t \ {key} |-> t[k]]
\* where the tree t has room for one more entry
Room(t) ==
    {Append(d, name) : d \in {<<>>} \cup {k \in Entries(t) : t[k].kind = "dir"},
                       name \in DirNames \cup FileNames}

\* path.Join(filePath, name) down from the root
RECURSIVE PathOf(_)
PathOf(key) ==
    IF key = <<>> THEN root
    ELSE PathOf(Parent(key)) \o <<"/">> \o key[Len(key)]

\* filepath.Base: what follows the last separator
RECURSIVE Base(_)
Base(s) ==
    IF s = <<>> THEN <<>>
    ELSE IF s[Len(s)] = "/" THEN <<>>
    ELSE Append(Base(SubSeq(s, 1, Len(s) - 1)), s[Len(s)])

\* filepath.Match for patterns of literals, ? and *: neither ? nor * match a separator
RECURSIVE Match(_, _)
Match(pattern, s) ==
    IF pattern = <<>> THEN s = <<>>
    ELSE IF Head(pattern) = "*"
         THEN \/ Match(Tail(pattern), s)
              \/ s # <<>> /\ Head(s) # "/" /\ Match(pattern, Tail(s))
    ELSE IF s = <<>> THEN FALSE
    ELSE IF Head(pattern) = "?" THEN Head(s) # "/" /\ Match(Tail(pattern), Tail(s))
    ELSE Head(pattern) = Head(s) /\ Match(Tail(pattern), Tail(s))

\* lines 289-295: some pattern matches the path or its base name
Found(filters, filePath) ==
    \E n \in DOMAIN filters :
        Match(filters[n], filePath) \/ Match(filters[n], Base(filePath))

\* what h.Write takes: bytes of text, and the 20 bytes of a digest, which stand
\* for the input they were computed from (SHA-1 taken to have no collisions)
Bytes(s) == [n \in DOMAIN s |-> [byte |-> s[n]]]
Sum(input) == <<[sha1 |-> input]>>
NoBytes == <<>>

\* line 264: the directories skipped below the root
ExcludedNames == {dotGit, dotDot, nodeModules, build, doc}

\* line 276, wrongly: entries starting with a dot are hashed too
ListedWithHidden(names) == names

\* line 276: the entries Readdirnames lists that are not skipped
Listed(names) == SelectSeq(names, LAMBDA name : name # <<>> /\ name[1] # ".")

\* the names Readdirnames returns for the directory at key
Readdirnames(t, key) ==
    SelectSeq(ListingOrder, LAMBDA name : Append(key, name) \in ChildKeys(t, key))

\* lines 257-307
RECURSIVE directoryHash(_, _, _, _)
directoryHash(level, key, t, w) ==
    LET filePath == PathOf(key)
        node == NodeAt(t, key)
        names == Listed(Readdirnames(t, key))
        RECURSIVE children(_)
        children(n) ==
            IF n = 0 THEN NoBytes
            ELSE children(n - 1) \o directoryHash(level + 1, Append(key, names[n]), t, w)
    IN  IF node.kind = "none" THEN Sum(Bytes(filePath))
        ELSE IF node.kind = "dir"
        THEN IF level > 0 /\ Base(filePath) \in ExcludedNames
             THEN NoBytes
             ELSE Sum(Bytes(filePath) \o children(Len(names)))
        ELSE IF ~w.nil /\ ~Found(w.FileFilter, filePath)
             THEN NoBytes
             ELSE Sum(Bytes(filePath) \o Bytes(node.data))

\* lines 249-255: one watched path, the root; the digest in hexadecimal
sourceTreeHash(t, w) == [hex |-> Sum(directoryHash(0, <<>>, t, w))]

\* the watch lists of the analysis: no filter, a base-name filter, and a filter on the whole path too
WatchLists ==
    {[nil |-> TRUE, FileFilter |-> <<>>],
     [nil |-> FALSE, FileFilter |-> << <<"*", ".", "g", "o">> >>],
     [nil |-> FALSE, FileFilter |-> << root \o <<"/">> \o lib \o <<"/", "*">>, <<"?", ".", "g", "o">> >>]}


\* an entry whose name starts with a dot, or an entry below one
Hidden(key) == \E n \in DOMAIN key : key[n][1] = "."
\* an entry inside a directory below the root that is named .git, .., node_modules, build or doc
InsideExcluded(key) ==
    \E n \in 1..(Len(key) - 1) : key[n] \in {dotGit, dotDot, nodeModules, build, doc}
\* a file that matches none of the configured filters
MatchesNone(key, wl) ==
    /\ ~wl.nil
    /\ \A n \in DOMAIN wl.FileFilter :
          /\ ~Match(wl.FileFilter[n], key[Len(key)])
          /\ ~Match(wl.FileFilter[n], PathOf(key))
FileClass(key, wl) ==
    IF Hidden(key) \/ InsideExcluded(key) \/ MatchesNone(key, wl)
    THEN "excluded" ELSE "included"
DirClass(key) ==
    IF Hidden(key) \/ InsideExcluded(key) THEN "excluded" ELSE "other"

CanCreate(key) ==
    /\ mutation = NoChange
    /\ key \notin Entries(tree) /\ Len(key) <= MaxDepth
    /\ Cardinality(Entries(tree)) < MaxEntries

\* a file is created at key with content c
AddFile(key, c) ==
    /\ CanCreate(key) /\ key[Len(key)] \in FileNames
    /\ tree' = With(tree, key, File(c))
    /\ mutation' = [op |-> "add", class |-> FileClass(key, watchList)]
    /\ UNCHANGED <<runVars, legacyVars, watchList, TreeHash, seen>>

\* the file at key gets the content c
WriteFile(key, c) ==
    /\ mutation = NoChange
    /\ tree[key].kind = "file" /\ tree[key].data # c
    /\ tree' = With(tree, key, File(c))
    /\ mutation' = [op |-> "write", class |-> FileClass(key, watchList)]
    /\ UNCHANGED <<runVars, legacyVars, watchList, TreeHash, seen>>

\* the file at key is removed
RemoveFile(key) ==
    /\ mutation = NoChange
    /\ tree[key].kind = "file"
    /\ tree' = Without(tree, key)
    /\ mutation' = [op |-> "remove", class |-> FileClass(key, watchList)]
    /\ UNCHANGED <<runVars, legacyVars, watchList, TreeHash, seen>>

\* an empty directory is created at key
MkDir(key) ==
    /\ CanCreate(key) /\ key[Len(key)] \in DirNames
    /\ tree' = With(tree, key, Directory)
    /\ mutation' = [op |-> "mkdir", class |-> DirClass(key)]
    /\ UNCHANGED <<runVars, legacyVars, watchList, TreeHash, seen>>

\* the empty directory at key is removed
RmDir(key) ==
    /\ mutation = NoChange
    /\ tree[key].kind = "dir" /\ ChildKeys(tree, key) = {}
    /\ tree' = Without(tree, key)
    /\ mutation' = [op |-> "rmdir", class |-> DirClass(key)]
    /\ UNCHANGED <<runVars, legacyVars, watchList, TreeHash, seen>>

\* lines 119-120 and 135: the tree is hashed, compared with TreeHash and remembered
Poll ==
    /\ mutation # NoChange
    /\ LET h == sourceTreeHash(tree, watchList)
       IN  /\ seen' = [op |-> mutation.op, class |-> mutation.class,
                       changed |-> h # TreeHash]
           /\ TreeHash' = h
    /\ mutation' = NoChange
    /\ UNCHANGED <<runVars, legacyVars, tree, watchList>>

TreeInit ==
    /\ RunAtRest /\ WatcherAtRest
    /\ tree = EmptyTree
    /\ watchList \in WatchLists
    /\ TreeHash = sourceTreeHash(tree, watchList)
    /\ mutation = NoChange
    /\ seen = NothingSeen

TreeNext ==
    \/ \E key \in Room(tree), c \in Contents : AddFile(key, c)
    \/ \E key \in Entries(tree), c \in Contents : WriteFile(key, c)
    \/ \E key \in Entries(tree) : RemoveFile(key)
    \/ \E key \in Room(tree) : MkDir(key)
    \/ \E key \in Entries(tree) : RmDir(key)
    \/ Poll

HashSpec == TreeInit /\ [][TreeNext]_vars

(***************************************************************************)
(* The legacy watcher watchSourceTree, lines 222-247                       *)
(***************************************************************************)

\* most child jobs launched in a run of the analysis
MaxJobs == 3

\* lines 229-236, wrongly: the job does not take the mutex
CanLockAlways(locked) == TRUE

\* line 230: mu.Lock() returns when the mutex is free
CanLock(locked) == ~locked

\* lines 226-236: lastHash is taken, and the goroutine of the next job is
\* started under a fresh cctx
WLaunch ==
    /\ wpc = "launch" /\ Len(jobs) < MaxJobs
    /\ jobs' = Append(jobs, [st |-> "waiting", cancelled |-> FALSE, err |-> FALSE])
    /\ stale' = FALSE
    /\ wpc' = "poll"
    /\ UNCHANGED <<runVars, hashVars, mu>>

\* lines 238-243: a poll finds the digest different from lastHash
WDetect ==
    /\ wpc = "poll" /\ stale
    /\ wpc' = "cancel"
    /\ UNCHANGED <<runVars, hashVars, jobs, mu, stale>>

\* line 244: cancel() of the cctx of the job launched last
WCancel ==
    /\ wpc = "cancel"
    /\ jobs' = [jobs EXCEPT ![Len(jobs)].cancelled = TRUE]
    /\ wpc' = "launch"
    /\ UNCHANGED <<runVars, hashVars, mu, stale>>

\* lines 230-231: the goroutine of job k gets the mutex and calls childJob(cctx)
JobLock(k) ==
    /\ jobs[k].st = "waiting" /\ CanLock(mu)
    /\ mu' = TRUE
    /\ jobs' = [jobs EXCEPT ![k].st = "running"]
    /\ UNCHANGED <<runVars, hashVars, wpc, stale>>

\* lines 231-235: childJob returns, with an error or not, and the mutex is released
JobReturn(k, failed) ==
    /\ jobs[k].st = "running"
    /\ mu' = FALSE
    /\ jobs' = [jobs EXCEPT ![k].st = "done", ![k].err = failed]
    /\ UNCHANGED <<runVars, hashVars, wpc, stale>>

\* a source file of the watched tree changes
SourceChange ==
    /\ ~stale
    /\ stale' = TRUE
    /\ UNCHANGED <<runVars, hashVars, wpc, jobs, mu>>

WatchInit ==
    /\ RunAtRest /\ HasherAtRest
    /\ wpc = "launch" /\ jobs = <<>> /\ mu = FALSE /\ stale = FALSE

WatchNext ==
    \/ WLaunch
    \/ WDetect
    \/ WCancel
    \/ \E k \in DOMAIN jobs : JobLock(k)
    \/ \E k \in DOMAIN jobs, failed \in BOOLEAN : JobReturn(k, failed)
    \/ SourceChange

WatchSpec == WatchInit /\ [][WatchNext]_vars

(***************************************************************************)
(* Properties                                                              *)
(***************************************************************************)

\* the recompile loop of a tick is over and line 157 not yet executed
TickEnd == pc = "restartcheck"
\* line 157 of a tick executed, the next tick not yet begun
TickOver == pc \in {"send", "loopcheck", "sleep"}
\* change detection of a tick is over and no callback invoked yet in it
AfterDetect == pc = "recompile" /\ tick.invoked = {}
NotDone(ps) == {k \in DOMAIN ps : ps[k].st # "done"}

\* C1: in a poll tick a restart is signaled if and only if the callback of the
\* last step was invoked in that tick and returned success.
C1_RestartIffLastStepSucceeded ==
    TickOver => (tick.signaled <=> LastStep \in tick.ok)

\* C2: in watch mode a tick that reaches the send on restart gets past it, so
\* that the poll loop goes on ticking, whatever the flags.
C2_SendCompletes == (pc = "send") ~> (pc # "send")

\* C3: not in quick mode, after the change detection of a tick that saw a change
\* in step i only, every step from i on is Dirty and the Dirty flag of every
\* step before i is as the tick found it.
C3_NonQuickCascade ==
    \A i \in Steps :
        (AfterDetect /\ ~quick /\ tick.changed = {i}) =>
            \A j \in Steps :
                /\ j >= i => Dirty(j)
                /\ j < i => (Dirty(j) <=> j \in tick.dirty0)

C3_Witness ==
    /\ AfterDetect /\ ~quick /\ tick.changed = {1}
    /\ ~Dirty(0) /\ Dirty(1) /\ Dirty(LastStep)
    /\ LastStep \notin tick.dirty0

\* C4: in quick mode, after the change detection of a tick that saw a change in
\* step i only, step i is Dirty; a later step was marked Dirty by the tick if and
\* only if it was Broken before the tick, and then its Broken flag is cleared;
\* the flags of the steps before i are as the tick found them.
C4_QuickCascade ==
    \A i \in Steps :
        (AfterDetect /\ quick /\ tick.changed = {i}) =>
            /\ Dirty(i) /\ ~Broken(i)
            /\ \A j \in Steps :
                /\ j > i => /\ (Dirty(j) /\ j \notin tick.dirty0) <=> j \in tick.broken0
                            /\ ~Broken(j)
                /\ j < i => /\ Dirty(j) <=> j \in tick.dirty0
                            /\ Broken(j) <=> j \in tick.broken0

C4_Witness ==
    /\ AfterDetect /\ quick /\ tick.changed = {0}
    /\ 1 \in tick.broken0 /\ Dirty(1) /\ ~Broken(1)
    /\ LastStep \notin tick.broken0 /\ ~Dirty(LastStep)

C6_NonWatchFailureIsFatal ==
    (~watch /\ initFail # NoStep) =>
        /\ halted = "fatal" /\ pc = "fatal"
        /\ fatalErr = CompileErr(initFail)
        /\ initInvoked = 0..initFail
        /\ procs = <<>> /\ lpc = "none"

C6_Witness ==
    ~watch /\ run /\ initFail = 1 /\ halted = "fatal"

\* C7: with --watch, after a callback error of step i in the initial pass exactly
\* the steps i..n-1 are Broken, no later callback was invoked in the pass, and
\* Run goes on to the poll loop.
C7_WatchFailureMarksBroken ==
    (watch /\ initFail # NoStep) =>
        /\ initInvoked = 0..initFail
        /\ halted = "no" \/ enteredWatch
        /\ pc \in {"spawn", "hashinit"} =>
                \A j \in Steps : Broken(j) <=> j >= initFail
        /\ pc \notin {"spawn", "hashinit"} => enteredWatch

C7_Witness ==
    /\ watch /\ initFail = 1 /\ pc = "sleep"
    /\ ~Broken(0) /\ Broken(1) /\ Broken(LastStep)

\* C8: at most one instance of the executable is launched and not yet finished
\* with; the run/restart goroutine launches the next one only when the previous
\* one was cancelled and its exit outcome received.
C8_AtMostOneInstance ==
    /\ Cardinality(NotDone(procs)) <= 1
    /\ lpc = "relaunch" =>
            \A k \in DOMAIN procs : procs[k].st = "done" /\ procs[k].cancelled

C8_Witness ==
    /\ lpc = "relaunch" /\ Len(procs) = 1 /\ procs[1].byRestart

\* C9: what Run's final read of runErr receives is the outcome of the instance
\* launched last, never that of an instance cancelled for a restart.
C9_FinalOutcomeIsLastInstance ==
    finalErr.recv =>
        /\ ~finalErr.byRestart
        /\ \A k \in DOMAIN procs : ~procs[k].afterFinal

\* C10: an instance of the executable is launched only after an initial pass in
\* which the callback of every step succeeded.
C10_LaunchOnlyAfterSuccess ==
    procs # <<>> => (initFail = NoStep /\ initInvoked = Steps)

\* C11: with --run and without --watch, once every step compiled, exactly one
\* instance is launched (the goroutine never reaches its relaunch), Run neither
\* returns nor ends before that instance has exited and its outcome was read,
\* and Run ends fatally exactly when that outcome is an error.
RunEnded == pc \in {"closeRunErr", "return", "done"} \/ (pc = "fatal" /\ initFail = NoStep)
C11_RunOnceAndWait ==
    (~watch /\ run) =>
        /\ lpc \notin {"cancel", "recv", "relaunch"}
        /\ Len(procs) <= 1
        /\ RunEnded =>
              /\ Len(procs) = 1 /\ procs[1].st = "done"
              /\ finalErr.recv /\ finalErr.err = procs[1].err
        /\ pc \in {"return", "done"} => finalErr.err = NoErr
        /\ (pc = "fatal" /\ initFail = NoStep) =>
              (finalErr.err # NoErr /\ fatalErr = finalErr.err)

C11_Witness ==
    /\ ~watch /\ run /\ pc = "done" /\ lpc = "done"
    /\ Len(procs) = 1 /\ procs[1].err = NoErr /\ procs[1].cancelled

\* C12: at a poll-tick boundary a step whose most recent compile attempt
\* succeeded is not Broken, and a Broken step is one whose most recent attempt
\* failed or one never attempted behind the failure of the initial pass.
C12_BrokenMeansFailed ==
    TickOver =>
        \A i \in Steps :
            /\ last[i] = "ok" => ~Broken(i)
            /\ Broken(i) => \/ last[i] = "fail"
                            \/ last[i] = "none" /\ initFail # NoStep /\ i > initFail

\* C13: in watch mode, once ctx is cancelled Run finishes: it returns or the
\* process ends.
C13_CancelTerminates ==
    (watch /\ ctxDone) ~> (pc = "done" \/ halted # "no")

\* the steps of d up to the first one whose callback failed in the tick t
UpToFailure(d, t) ==
    IF t.failed = {} THEN d ELSE {j \in d : \A f \in t.failed : j <= f}

\* C14, first part: when the callback of step i fails in a tick, the callback of
\* no later step is invoked in that tick and every later step that was Dirty
\* when change detection ended is still Dirty when the tick ends.
FailureStopsTick ==
    \A f \in Steps :
        (TickEnd /\ f \in tick.failed) =>
            /\ tick.failed = {f}
            /\ \A j \in tick.invoked : j <= f
            /\ \A j \in Steps : (j > f /\ j \in tick.dirty1) => Dirty(j)

\* C14 as stated: and a tick that sees no change recompiles every step found
\* Dirty, that is, every step left Dirty behind a failure of the tick before.
C14_FailureLeavesLaterDirty ==
    /\ FailureStopsTick
    /\ (TickEnd /\ tick.changed = {}) => tick.invoked = tick.dirty1

\* C14 amended: and a tick that sees no change recompiles the steps found Dirty
\* as far as the first of them whose callback fails; the rest stays Dirty.
C14_FailureLeavesLaterDirtyUpToNext ==
    /\ FailureStopsTick
    /\ (TickEnd /\ tick.changed = {}) =>
            /\ tick.invoked = UpToFailure(tick.dirty1, tick)
            /\ {j \in Steps : Dirty(j)} = tick.dirty1 \ tick.invoked

C14_Witness ==
    /\ TickEnd /\ tick.changed = {} /\ tick.failed = {}
    /\ tick.invoked = {1, LastStep} /\ tick.ok = {1, LastStep}

\* C15: when the most recent compile attempt of step j failed, in the initial
\* pass or in a tick, a tick that detects a change in an earlier step has marked
\* j Dirty by the end of its change detection, in quick mode too.
C15_FailedStepIsRetried ==
    AfterDetect =>
        \A j \in Steps :
            (last[j] = "fail" /\ \E i \in tick.changed : i < j) => Dirty(j)

\* a step of the program that calls a compile callback of a poll tick
CallsCallback == pc' = "callback" /\ pc # "callback"

\* C16: within a tick, change detection of all steps is over before any
\* callback is called; callbacks are called in strictly increasing step order,
\* at most once per step, only for a step that is Dirty, and the Dirty flag of
\* the step is cleared when its callback starts to run.
C16_RecompilePhaseOrdering ==
    /\ [](pc = "detect" => tick.invoked = {})
    /\ [](pc = "callback" => (idx \in tick.invoked /\ ~Dirty(idx)))
    /\ [][CallsCallback =>
            /\ pc = "recompile" /\ idx' = idx
            /\ tick.dirty1 = {i \in Steps : Dirty(i)} \cup tick.invoked
            /\ Dirty(idx) /\ ~Dirty(idx)'
            /\ \A k \in tick.invoked : k < idx
            /\ tick'.invoked = tick.invoked \cup {idx}]_vars

C16_Witness ==
    /\ pc = "callback" /\ idx = LastStep /\ tick.invoked = Steps
    /\ tick.ok = Steps \ {LastStep} /\ \A i \in Steps : ~Dirty(i)

\* C17: no instance sends its outcome on runErr after Run closed that channel
\* (the send would panic), and once Run has returned no instance is left at a
\* send on runErr that nobody will receive.
C17_ChannelSafety ==
    /\ halted # "panic"
    /\ pc = "done" => \A k \in DOMAIN procs : procs[k].st # "exited"

\* C18: no step is Dirty and Broken at once, at the boundaries of a poll tick,
\* after its change detection, and in every other reachable state.
C18_NeverDirtyAndBroken ==
    \A i \in Steps : ~(Dirty(i) /\ Broken(i))

C18_Witness ==
    /\ AfterDetect /\ ~quick /\ tick.changed = {1} /\ tick.broken0 = Steps
    /\ Broken(0) /\ ~Dirty(0)
    /\ \A j \in Steps \ {0} : Dirty(j) /\ ~Broken(j)

\* C19: the digest a poll computes equals the one before when what happened to
\* the tree in between is the creation, removal or rewriting of a file matching
\* no filter, of an entry with a dot name (or below one), or of anything inside
\* a directory below the root named .git, .., node_modules, build or doc; it
\* differs when an included file was created, removed or rewritten.
C19_HashSeesIncludedContentOnly ==
    /\ seen.class = "excluded" => ~seen.changed
    /\ seen.class = "included" => seen.changed

C19_Witness ==
    /\ seen = [op |-> "write", class |-> "excluded", changed |-> FALSE]
    /\ NodeAt(tree, <<aGo>>).kind = "file"
    /\ NodeAt(tree, <<build, aGo>>) = File(<<"x">>)

\* C20: in the legacy watcher at most one child job executes at a time, and
\* when a job is launched the context of every job launched before it has been
\* cancelled.
C20_OneJobAndCancelBeforeLaunch ==
    /\ Cardinality({k \in DOMAIN jobs : jobs[k].st = "running"}) <= 1
    /\ \A k \in DOMAIN jobs : k < Len(jobs) => jobs[k].cancelled

C20_Witness ==
    /\ Len(jobs) = 3 /\ wpc = "poll"
    /\ jobs[1].st = "running" /\ jobs[1].cancelled
    /\ jobs[2].st = "waiting" /\ jobs[2].cancelled
    /\ jobs[3].st = "waiting" /\ ~jobs[3].cancelled

====
